---- MODULE Spec2Model ----
(***************************************************************************)
(* Model of pipe-framework's core: pipe/core/base.py (Step, the & and |    *)
(* composition operators, required-field validation, BasePipe._run_pipe    *)
(* and NamedPipe.run_pipe).                                                *)
(*                                                                         *)
(* Python strings that the code inspects character by character (keys of   *)
(* required_fields, store keys) are sequences of one-character strings.    *)
(* A store (frozendict) is a function from keys to tagged values.  A       *)
(* Python dict whose iteration order the code depends on (required_fields) *)
(* is a sequence of <<key, value>> pairs with distinct keys.               *)
(***************************************************************************)
EXTENDS Integers, Sequences, FiniteSets, TLC

\* ------------------------------------------------------------------------
\* Bounds of the model
\* ------------------------------------------------------------------------

\* longest step sequence handed to _run_pipe directly (the sequences
\* of pipe_schema are as long as the schema makes them)
MaxLen == 2

\* number of operations performed on one pipe
MaxRuns == 2

\* number of run calls made on one set of step instances
MaxStepRuns == 1

\* number of constructor and run_pipe calls a program makes
MaxCalls == 3

\* number of validate calls made on one set of step instances
MaxValidations == 2

\* integer payloads of the fixture steps live in 0 .. ValMod
ValMod == 2

\* number of calls made on one database mixin instance
MaxDbCalls == 4

\* ------------------------------------------------------------------------
\* Keys (Python str) and tagged values
\* ------------------------------------------------------------------------

k_x == <<"x">>
k_y == <<"y">>
k_f == <<"f">>
k_stop == <<"s", "t", "o", "p">>
k_seen == <<"s", "e", "e", "n">>
k_began == <<"b", "e", "g", "a", "n">>
k_done == <<"d", "o", "n", "e">>
k_obj_a == <<"o", "b", "j", "_", "a">>
k_obj_b == <<"o", "b", "j", "_", "b">>
k_exception == <<"e", "x", "c", "e", "p", "t", "i", "o", "n">>

IntV(n) == <<"int", n>>
StrV(s) == <<"str", s>>
DictV(d) == <<"dict", d>>
ExcV(e) == <<"exc", e>>
TypeOf(v) == v[1]
Payload(v) == v[2]

\* the empty frozendict
EmptyStore == [k \in {} |-> IntV(0)]

\* frozendict.copy(**add_or_replace): a new mapping, the receiver is untouched
Copy(store, add_or_replace) ==
    [k \in (DOMAIN store) \cup (DOMAIN add_or_replace) |->
        IF k \in DOMAIN add_or_replace THEN add_or_replace[k] ELSE store[k]]

\* an exception object: its class and its message (a sequence of fragments)
Exc(type, msg) == [type |-> type, msg |-> msg]

\* result of a call: a returned value or a raised exception
Return(v) == [ok |-> TRUE, val |-> v]
Raise(e) == [ok |-> FALSE, val |-> e]

\* ------------------------------------------------------------------------
\* Python dict with insertion order: a sequence of <<key, value>> pairs
\* ------------------------------------------------------------------------

DictKeys(d) == [i \in 1..Len(d) |-> d[i][1]]
DictHas(d, k) == \E i \in 1..Len(d) : d[i][1] = k
DictGet(d, k) == d[CHOOSE i \in 1..Len(d) : d[i][1] = k][2]

RECURSIVE DictDel(_, _)
DictDel(d, k) ==
    IF d = <<>> THEN <<>>
    ELSE IF Head(d)[1] = k THEN Tail(d)
    ELSE <<Head(d)>> \o DictDel(Tail(d), k)

\* dict.update({k: v}): replaces in place or appends
DictUpdate(d, k, v) ==
    IF DictHas(d, k)
    THEN [i \in 1..Len(d) |-> IF d[i][1] = k THEN <<k, v>> ELSE d[i]]
    ELSE Append(d, <<k, v>>)

\* ------------------------------------------------------------------------
\* str helpers used by _parse_dynamic_fields
\* ------------------------------------------------------------------------

StartsWith(s, p) == Len(s) >= Len(p) /\ SubSeq(s, 1, Len(p)) = p
EndsWith(s, p) == Len(s) >= Len(p) /\ SubSeq(s, Len(s) - Len(p) + 1, Len(s)) = p

\* every occurrence of a character of chars removed: re.sub(r'\{|\}', '', key)
\* and str.replace('+', '')
RECURSIVE StripChars(_, _)
StripChars(s, chars) ==
    IF s = <<>> THEN <<>>
    ELSE IF Head(s) \in chars THEN StripChars(Tail(s), chars)
    ELSE <<Head(s)>> \o StripChars(Tail(s), chars)

\* ------------------------------------------------------------------------
\* Step classes and instances of an application built on the framework
\* (subclasses of Step: what they declare is the input of the model)
\* ------------------------------------------------------------------------

\* Step._available_methods
_available_methods == <<"extract", "transform", "load">>

\* the capability methods each class defines (hasattr(self, method))
Methods(cls) ==
    CASE cls = "ESetX" -> {"extract"}
      [] cls = "TInc" -> {"transform"}
      [] cls = "TStop" -> {"transform"}
      [] cls = "LBoom" -> {"load"}
      [] cls = "LErr" -> {"load"}
      [] cls = "EDyn" -> {"extract"}
      [] cls = "EFresh" -> {"extract"}
      [] cls = "TMix" -> {"transform"}
      [] cls = "ExTr" -> {"extract", "transform"}
      [] cls = "ExLo" -> {"extract", "load"}
      [] cls = "TrLo" -> {"transform", "load"}
      [] cls = "ExTrLo" -> {"extract", "transform", "load"}
      [] OTHER -> {}

\* the class in whose namespace required_fields lives: a subclass that does
\* not declare it shares the dict object of Step
FieldsOwner(cls) == IF cls \in {"TInc", "EDyn", "LBoom", "TMix"} THEN cls ELSE "Step"

\* required_fields as declared in the class bodies; Step declares {}
DeclaredFields(owner) ==
    CASE owner = "TInc" -> [none |-> FALSE, d |-> << <<(<<"+">> \o k_x), "int">> >>]
      [] owner = "EDyn" -> [none |-> FALSE, d |-> << <<(<<"+", "{">> \o k_f \o <<"}">>), "int">> >>]
      [] owner = "LBoom" -> [none |-> TRUE, d |-> <<>>]
      [] owner = "TMix" -> [none |-> FALSE,
                            d |-> << <<k_x, "int">>, <<(<<"{">> \o k_f \o <<"}">>), "str">> >>]
      [] OTHER -> [none |-> FALSE, d |-> <<>>]

FieldsOwners == {"Step", "TInc", "EDyn", "LBoom", "TMix"}

\* step instances, their classes and their instance attributes
AtomIds ==
    {"setx", "inc", "stop", "boom", "err", "bare", "fresh", "dyn_x", "dyn_y", "mix_y", "mix_x",
     "et", "el", "tl", "etl"}

ClassOf(id) ==
    CASE id = "setx" -> "ESetX"
      [] id = "inc" -> "TInc"
      [] id = "stop" -> "TStop"
      [] id = "boom" -> "LBoom"
      [] id = "err" -> "LErr"
      [] id = "bare" -> "Bare"
      [] id = "fresh" -> "EFresh"
      [] id \in {"dyn_x", "dyn_y"} -> "EDyn"
      [] id \in {"mix_y", "mix_x"} -> "TMix"
      [] id = "et" -> "ExTr"
      [] id = "el" -> "ExLo"
      [] id = "tl" -> "TrLo"
      [] id = "etl" -> "ExTrLo"

Attrs(id) ==
    CASE id \in {"dyn_x", "mix_x"} -> (k_f :> k_x)
      [] id \in {"dyn_y", "mix_y"} -> (k_f :> k_y)
      [] OTHER -> [a \in {} |-> <<>>]

\* the bodies of the capability methods: pure functions of the store
Capability(id, method, store) ==
    LET cls == ClassOf(id) IN
    CASE cls = "ESetX" -> Return(Copy(store, k_x :> IntV(1)))
      [] cls = "TInc" ->
            IF k_x \in DOMAIN store /\ TypeOf(store[k_x]) = "int"
            THEN Return(Copy(store, k_x :> IntV((Payload(store[k_x]) + 1) % (ValMod + 1))))
            ELSE Raise(Exc("KeyError", k_x))
      [] cls = "TStop" -> Return(Copy(store, k_stop :> IntV(1)))
      [] cls = "LBoom" -> Raise(Exc("RuntimeError", <<"boom">>))
      [] cls = "LErr" ->
            Return(Copy(store, k_seen :> IntV(IF k_exception \in DOMAIN store THEN 1 ELSE 0)))
      [] cls = "EDyn" -> Return(Copy(store, k_y :> IntV(0)))
      [] cls = "EFresh" -> Return(k_y :> IntV(0))
      [] cls = "TMix" -> Return(Copy(store, k_seen :> IntV(2)))
      [] cls \in {"ExTr", "ExLo", "TrLo", "ExTrLo"} -> Return(Copy(store, k_seen :> StrV(method)))

Atom(id) == [kind |-> "atom", id |-> id]

\* the mutable part of the steps: the required_fields dict of each class
\* that declares one, and the instance attribute once an instance has it
InitEnv ==
    [cls_rf |-> [o \in FieldsOwners |-> DeclaredFields(o)],
     inst_rf |-> [id \in AtomIds |-> [set |-> FALSE, d |-> <<>>]]]

\* self.required_fields: the instance attribute if set, else the class's
Fields(env, id) ==
    IF env.inst_rf[id].set
    THEN [none |-> FALSE, d |-> env.inst_rf[id].d]
    ELSE env.cls_rf[FieldsOwner(ClassOf(id))]

\* ------------------------------------------------------------------------
\* Step: dynamic fields, validation, dispatch
\* ------------------------------------------------------------------------

\* (key.startswith('+{') or key.startswith('{')) and key.endswith('}')
IsDynamicKey(key) ==
    (StartsWith(key, <<"+", "{">>) \/ StartsWith(key, <<"{">>)) /\ EndsWith(key, <<"}">>)

\* the attribute a dynamic key names
VariableName(key) == StripChars(StripChars(key, {"{", "}"}), {"+"})

\* the for loop of _parse_dynamic_fields over the keys listed before it
\* starts: d is the dict self.required_fields refers to, dyn is
\* dynamic_config; getattr raises AttributeError for an unknown attribute
RECURSIVE ParseLoop(_, _, _, _)

\* ParseLoop with a plausible slip: the literal key is not deleted
ParseLoop_KeepsLiteral(keys, d, dyn, id) ==
    IF keys = <<>> THEN [ok |-> TRUE, d |-> d, dyn |-> dyn, exc |-> Exc("", <<>>)]
    ELSE LET key == Head(keys) IN
         IF IsDynamicKey(key)
         THEN IF VariableName(key) \notin DOMAIN Attrs(id)
              THEN [ok |-> FALSE, d |-> d, dyn |-> dyn,
                    exc |-> Exc("AttributeError", VariableName(key))]
              ELSE ParseLoop(Tail(keys), d,
                             DictUpdate(dyn, Attrs(id)[VariableName(key)], DictGet(d, key)), id)
         ELSE ParseLoop(Tail(keys), d, dyn, id)

ParseLoop(keys, d, dyn, id) ==
    IF keys = <<>> THEN [ok |-> TRUE, d |-> d, dyn |-> dyn, exc |-> Exc("", <<>>)]
    ELSE LET key == Head(keys) IN
         IF IsDynamicKey(key)
         THEN IF VariableName(key) \notin DOMAIN Attrs(id)
              THEN [ok |-> FALSE, d |-> d, dyn |-> dyn,
                    exc |-> Exc("AttributeError", VariableName(key))]
              ELSE ParseLoop(Tail(keys), DictDel(d, key),
                             DictUpdate(dyn, Attrs(id)[VariableName(key)], DictGet(d, key)), id)
         ELSE ParseLoop(Tail(keys), d, dyn, id)

\* the dict object self.required_fields refers to gets content d
SetFieldsObject(env, id, d) ==
    IF env.inst_rf[id].set
    THEN [env EXCEPT !.inst_rf[id].d = d]
    ELSE [env EXCEPT !.cls_rf[FieldsOwner(ClassOf(id))].d = d]

\* the end of _parse_dynamic_fields, loop being what the for loop left:
\* self.required_fields = dict(**self.required_fields, **dynamic_config),
\* a TypeError when both hold the same key.  [ok, val (the exception), env]
AssignFields(env, id, loop) ==
    IF ~loop.ok
    THEN [ok |-> FALSE, val |-> loop.exc, env |-> SetFieldsObject(env, id, loop.d)]
    ELSE IF \E i \in 1..Len(loop.d) : DictHas(loop.dyn, loop.d[i][1])
    THEN [ok |-> FALSE, env |-> SetFieldsObject(env, id, loop.d),
          val |-> Exc("TypeError", <<"dict() got multiple values for keyword argument">>)]
    ELSE [ok |-> TRUE, val |-> Exc("", <<>>),
          env |-> [SetFieldsObject(env, id, loop.d)
                     EXCEPT !.inst_rf[id] = [set |-> TRUE, d |-> loop.d \o loop.dyn]]]

\* Step._parse_dynamic_fields: [ok, val (the exception), env]
_parse_dynamic_fields(env, id) ==
    AssignFields(env, id,
                 ParseLoop(DictKeys(Fields(env, id).d), Fields(env, id).d, <<>>, id))

\* valideer's reading of a schema key: '+name' required, '?name' optional,
\* 'name' optional
IsRequiredKey(key) == StartsWith(key, <<"+">>)
PropertyName(key) ==
    IF StartsWith(key, <<"+">>) \/ StartsWith(key, <<"?">>) THEN Tail(key) ELSE key

\* a value passes a rule
Accepts(rule, v) == rule = "object" \/ TypeOf(v) = rule

RECURSIVE Flatten(_)
Flatten(ss) == IF ss = <<>> THEN <<>> ELSE Head(ss) \o Flatten(Tail(ss))

\* the required properties the store lacks, and the properties whose
\* value does not pass their rule
MissingProperties(fields, store) ==
    SelectSeq(fields, LAMBDA p : IsRequiredKey(p[1]) /\ PropertyName(p[1]) \notin DOMAIN store)
InvalidProperties(fields, store) ==
    SelectSeq(fields, LAMBDA p : PropertyName(p[1]) \in DOMAIN store
                                 /\ ~Accepts(p[2], store[PropertyName(p[1])]))

\* what validator.validate(store) answers given the two lists
ValidationOutcome(store, missing, invalid) ==
    IF missing # <<>>
    THEN Raise(Exc("ValidationError",
                   <<"missing required properties: ">>
                   \o Flatten([i \in 1..Len(missing) |-> PropertyName(missing[i][1])])))
    ELSE IF invalid # <<>>
    THEN Raise(Exc("ValidationError",
                   <<"Invalid value (at ">> \o PropertyName(invalid[1][1]) \o <<")">>))
    ELSE Return(store)

\* validator = V.parse(self.required_fields); validator.validate(store):
\* the adapted mapping, or ValidationError
ValidatorValidate(fields, store) ==
    ValidationOutcome(store, MissingProperties(fields, store), InvalidProperties(fields, store))

\* Adapted with a plausible slip: the validated store keeps only the
\* properties the schema names
Adapted_SchemaOnly(env, id, store, adapted) ==
    IF ~adapted.ok
    THEN [ok |-> FALSE, env |-> env,
          val |-> Exc("StepValidationException",
                      <<"Validation for step ", ClassOf(id), " failed with error \n">>
                      \o adapted.val.msg)]
    ELSE [ok |-> TRUE, env |-> env,
          val |-> [k \in {q \in DOMAIN store :
                             \E i \in 1..Len(Fields(env, id).d) :
                                 PropertyName(Fields(env, id).d[i][1]) = q}
                     |-> adapted.val[k]]]

\* the try of validate, adapted being what validator.validate answered
Adapted(env, id, store, adapted) ==
    IF ~adapted.ok
    THEN [ok |-> FALSE, env |-> env,
          val |-> Exc("StepValidationException",
                      <<"Validation for step ", ClassOf(id), " failed with error \n">>
                      \o adapted.val.msg)]
    ELSE [ok |-> TRUE, env |-> env, val |-> Copy(store, adapted.val)]

\* validate after self._parse_dynamic_fields() ended as parsed
Parsed(id, store, parsed) ==
    IF ~parsed.ok THEN parsed
    ELSE Adapted(parsed.env, id, store, ValidatorValidate(Fields(parsed.env, id).d, store))

\* Step.validate: [ok, val, env]
validate(env, id, store) == Parsed(id, store, _parse_dynamic_fields(env, id))

\* sep.join(parts)
RECURSIVE Join(_, _)
Join(parts, sep) ==
    IF Len(parts) <= 1 THEN parts
    ELSE <<Head(parts), sep>> \o Join(Tail(parts), sep)

\* the capability methods of _available_methods the instance has, and the
\* first of them, as a sequence of at most one element
PresentMethods(id) == SelectSeq(_available_methods, LAMBDA m : m \in Methods(ClassOf(id)))

\* FirstMethod with a plausible slip: the loop goes on after a method was
\* found, and the last one present is the one whose result is returned
FirstMethod_Last(id) ==
    IF PresentMethods(id) = <<>> THEN <<>>
    ELSE <<PresentMethods(id)[Len(PresentMethods(id))]>>

FirstMethod(id) ==
    IF PresentMethods(id) = <<>> THEN <<>> ELSE <<Head(PresentMethods(id))>>

\* return getattr(self, method)(store), res being what the method did
Invoked(env, id, method, store, res) ==
    [ok |-> res.ok, val |-> res.val, env |-> env,
     calls |-> << [id |-> id, method |-> method, store |-> store] >>]

\* the for loop of run and the raise after it, on the validated store
Dispatch(env, id, store) ==
    IF FirstMethod(id) = <<>>
    THEN [ok |-> FALSE, env |-> env, calls |-> <<>>,
          val |-> Exc("StepExecutionException",
                      <<"You should define one of this methods - ">>
                      \o Join(_available_methods, ","))]
    ELSE Invoked(env, id, FirstMethod(id)[1], store,
                 Capability(id, FirstMethod(id)[1], store))

\* run after the validation ended as validated
Validated(id, validated) ==
    IF ~validated.ok
    THEN [ok |-> FALSE, val |-> validated.val, env |-> validated.env, calls |-> <<>>]
    ELSE Dispatch(validated.env, id, validated.val)

\* run with a plausible slip: the store is handed to the capability method
\* without validation
run_NoValidate(env, id, store) == Dispatch(env, id, store)

\* Step.run of an instance of an application class.
\* [ok, val, env, calls]: calls lists the capability methods invoked
run(env, id, store) ==
    Validated(id, IF Fields(env, id).none
                  THEN [ok |-> TRUE, val |-> store, env |-> env]
                  ELSE validate(env, id, store))

\* ------------------------------------------------------------------------
\* Composition: Step.__and__ and Step.__or__
\* ------------------------------------------------------------------------

\* Step.factory(run, 'AndStep', obj_a=self, obj_b=other)()
AndStep(a, b) == [kind |-> "and", obj_a |-> a, obj_b |-> b]
\* Step.factory(run, 'OrStep', obj_a=self, obj_b=other)()
OrStep(a, b) == [kind |-> "or", obj_a |-> a, obj_b |-> b]

StepName(step) ==
    CASE step.kind = "atom" -> ClassOf(step.id)
      [] step.kind = "and" -> "AndStep"
      [] step.kind = "or" -> "OrStep"

\* what `except Exception` catches: everything but the exceptions that
\* derive from BaseException alone
IsException(e) == e.type \notin {"KeyboardInterrupt", "SystemExit", "GeneratorExit"}

\* one entry of the execution record: step.run(store) was called at
\* position path of the composition tree and ended with [ok, val]
RunEntry(path, step, store, res) ==
    [path |-> path, step |-> step, store |-> store, ok |-> res.ok, val |-> res.val]

\* Exec(env, step, store, path) is step.run(store):
\*   [ok, val, env, calls, runs]
\* calls: the capability methods invoked, in order;
\* runs: every run call made, the outermost first
RECURSIVE Exec(_, _, _, _)

\* Caught with a plausible slip: StepExecutionException is raised again
Caught_Reraise(store, r) ==
    [ok |-> IsException(r.val) /\ r.val.type # "StepExecutionException",
     val |-> IF IsException(r.val) /\ r.val.type # "StepExecutionException"
             THEN store ELSE r.val]

\* the except branch: return store (an exception `except Exception` does
\* not catch goes on)
Caught(store, r) ==
    [ok |-> IsException(r.val), val |-> IF IsException(r.val) THEN store ELSE r.val]

\* a composed run ends with [ok, val] after its operands ran as a then b
Both(res, a, b) ==
    [ok |-> res.ok, val |-> res.val, env |-> b.env,
     calls |-> a.calls \o b.calls, runs |-> a.runs \o b.runs]

\* a composed run ends with [ok, val] after its operand obj_a alone ran
Only(res, a) ==
    [ok |-> res.ok, val |-> res.val, env |-> a.env, calls |-> a.calls, runs |-> a.runs]

\* AndAfterB with a plausible slip: each operand has its own try, so the
\* result of obj_a is kept when obj_b fails
AndAfterB_Partial(store, a, b) ==
    IF ~b.ok THEN Both(Return(Copy(store, k_obj_a :> DictV(a.val))), a, b)
    ELSE Both(Return(Copy(store, (k_obj_a :> DictV(a.val)) @@ (k_obj_b :> DictV(b.val)))),
              a, b)

\* AndStep.run once both operands were run, as a and b
AndAfterB(store, a, b) ==
    IF ~b.ok THEN Both(Caught(store, b), a, b)
    ELSE Both(Return(Copy(store, (k_obj_a :> DictV(a.val)) @@ (k_obj_b :> DictV(b.val)))),
              a, b)

\* AndAfterA with a plausible slip: obj_b is run on the result of obj_a
AndAfterA_Chained(step, store, path, a) ==
    IF ~a.ok THEN Only(Caught(store, a), a)
    ELSE AndAfterB(store, a, Exec(a.env, step.obj_b, a.val, Append(path, "obj_b")))

\* AndStep.run once obj_a was run, as a
AndAfterA(step, store, path, a) ==
    IF ~a.ok THEN Only(Caught(store, a), a)
    ELSE AndAfterB(store, a, Exec(a.env, step.obj_b, store, Append(path, "obj_b")))

\* the run method __and__ gives the AndStep
AndStepRun(env, step, store, path) ==
    AndAfterA(step, store, path, Exec(env, step.obj_a, store, Append(path, "obj_a")))

\* OrStep.run once obj_b was run in the except branch, as b: return result
OrAfterB(a, b) == Both(b, a, b)

\* OrAfterA with a plausible slip: obj_b runs whether obj_a failed or not
OrAfterA_Always(step, store, path, a) ==
    OrAfterB(a, Exec(a.env, step.obj_b,
                     IF a.ok THEN a.val ELSE Copy(store, k_exception :> ExcV(a.val)),
                     Append(path, "obj_b")))

\* OrAfterA with a plausible slip: obj_b is given the original store,
\* without the exception
OrAfterA_NoContext(step, store, path, a) ==
    IF a.ok \/ ~IsException(a.val) THEN Only(a, a)
    ELSE OrAfterB(a, Exec(a.env, step.obj_b, store, Append(path, "obj_b")))

\* OrStep.run once obj_a was run, as a
OrAfterA(step, store, path, a) ==
    IF a.ok \/ ~IsException(a.val) THEN Only(a, a)
    ELSE OrAfterB(a, Exec(a.env, step.obj_b, Copy(store, k_exception :> ExcV(a.val)),
                          Append(path, "obj_b")))

\* the run method __or__ gives the OrStep
OrStepRun(env, step, store, path) ==
    OrAfterA(step, store, path, Exec(env, step.obj_a, store, Append(path, "obj_a")))

\* Step.run of an application step, placed at path
AtomRun(path, r) ==
    [ok |-> r.ok, val |-> r.val, env |-> r.env, runs |-> <<>>,
     calls |-> [i \in 1..Len(r.calls) |->
                  [path |-> path, id |-> r.calls[i].id,
                   method |-> r.calls[i].method, store |-> r.calls[i].store]]]

\* the call recorded in front of the calls it made
Entered(path, step, store, res) ==
    [res EXCEPT !.runs = <<RunEntry(path, step, store, res)>> \o res.runs]

Exec(env, step, store, path) ==
    Entered(path, step, store,
            CASE step.kind = "atom" -> AtomRun(path, run(env, step.id, store))
              [] step.kind = "and" -> AndStepRun(env, step, store, path)
              [] step.kind = "or" -> OrStepRun(env, step, store, path))

\* ------------------------------------------------------------------------
\* Pipes: BasePipe, NamedPipe and the application's subclasses
\* ------------------------------------------------------------------------

\* PlainPipe(NamedPipe) declares pipe_schema only; HookPipe(NamedPipe)
\* also overrides before_pipe, after_pipe and interrupt
PipeClasses == {"PlainPipe", "HookPipe"}

\* BasePipe.before_pipe and its override
before_pipe(cls, store) ==
    IF cls = "HookPipe" THEN Copy(store, k_began :> IntV(1)) ELSE store

\* BasePipe.after_pipe and its override
after_pipe(cls, store) ==
    IF cls = "HookPipe" THEN Copy(store, k_done :> IntV(1)) ELSE store

\* BasePipe.interrupt and its override
interrupt(cls, store) ==
    IF cls = "HookPipe" THEN k_stop \in DOMAIN store ELSE FALSE

\* pipe_schema of the application's pipes, as a dict
pipe_schema ==
    << <<"count", <<Atom("setx"), Atom("inc"), Atom("inc")>> >>,
       <<"halt", <<Atom("setx"), Atom("stop"), Atom("inc")>> >>,
       <<"fail", <<Atom("inc"), Atom("boom"), Atom("setx")>> >>,
       <<"safe", <<OrStep(Atom("boom"), Atom("err")),
                   AndStep(Atom("fresh"), Atom("fresh"))>> >>,
       <<"lack", <<Atom("setx"), Atom("bare"), Atom("setx")>> >>,
       <<"lack_and", <<AndStep(Atom("bare"), Atom("setx")), Atom("setx")>> >>,
       <<"lack_or", <<OrStep(Atom("bare"), Atom("err")),
                      OrStep(Atom("boom"), Atom("bare")), Atom("setx")>> >>,
       <<"bump", <<Atom("inc"), Atom("inc")>> >>,
       <<"renew", <<Atom("fresh"), Atom("setx")>> >>,
       <<"dyn", <<Atom("mix_x"), Atom("dyn_y")>> >>,
       <<"empty", <<>> >> >>

\* BasePipe.__print_step: what the console receives
PrintStep(step, store) == [step |-> StepName(step), store |-> store]

\* one iteration record of _run_pipe: item at position pos was run on
\* store and ended with [ok, val]; intr is what interrupt answered
TraceEntry(pos, item, store, r, intr) ==
    [pos |-> pos, step |-> item, store |-> store, ok |-> r.ok, val |-> r.val,
     intr |-> intr, calls |-> r.calls, runs |-> r.runs]

\* the invocation ends with [ok, val] and leaves self.store = store
Ended(ok, val, store, env, trace, console) ==
    [ok |-> ok, val |-> val, store |-> store, env |-> env, trace |-> trace,
     console |-> console]

\* the for loop of _run_pipe from position i on.
\* st = [store, env, trace, console]; the result adds [ok, val]
RECURSIVE RunLoop(_, _, _, _, _)

\* AfterItem with a plausible slip: the interruption does not end the loop
AfterItem_NoBreak(cls, inspection, pipe, i, st, r) ==
    IF ~r.ok
    THEN Ended(FALSE, r.val, st.store, r.env,
               Append(st.trace, TraceEntry(i, pipe[i], st.store, r, FALSE)), st.console)
    ELSE RunLoop(cls, inspection, pipe, i + 1,
                 [store |-> IF interrupt(cls, r.val) THEN st.store ELSE r.val,
                  env |-> r.env,
                  trace |-> Append(st.trace, TraceEntry(i, pipe[i], st.store, r,
                                                        interrupt(cls, r.val))),
                  console |-> st.console])

\* AfterItem with a plausible slip: the result is committed to self.store
\* before interrupt is asked
AfterItem_CommitFirst(cls, inspection, pipe, i, st, r) ==
    IF ~r.ok
    THEN Ended(FALSE, r.val, st.store, r.env,
               Append(st.trace, TraceEntry(i, pipe[i], st.store, r, FALSE)), st.console)
    ELSE IF interrupt(cls, r.val)
    THEN Ended(TRUE, after_pipe(cls, r.val), r.val, r.env,
               Append(st.trace, TraceEntry(i, pipe[i], st.store, r, TRUE)), st.console)
    ELSE RunLoop(cls, inspection, pipe, i + 1,
                 [store |-> r.val, env |-> r.env,
                  trace |-> Append(st.trace, TraceEntry(i, pipe[i], st.store, r, FALSE)),
                  console |-> st.console])

\* AfterItem with a plausible slip: a failing step is skipped (its
\* exception swallowed) and the loop goes on
AfterItem_Swallow(cls, inspection, pipe, i, st, r) ==
    IF ~r.ok
    THEN RunLoop(cls, inspection, pipe, i + 1,
                 [store |-> st.store, env |-> r.env,
                  trace |-> Append(st.trace, TraceEntry(i, pipe[i], st.store, r, FALSE)),
                  console |-> st.console])
    ELSE IF interrupt(cls, r.val)
    THEN Ended(TRUE, after_pipe(cls, r.val), st.store, r.env,
               Append(st.trace, TraceEntry(i, pipe[i], st.store, r, TRUE)), st.console)
    ELSE RunLoop(cls, inspection, pipe, i + 1,
                 [store |-> r.val, env |-> r.env,
                  trace |-> Append(st.trace, TraceEntry(i, pipe[i], st.store, r, FALSE)),
                  console |-> st.console])

\* the body of the loop once item.run(self.store) ended as r: the
\* exception goes on, or the interruption returns, or the result is
\* committed and the loop continues
AfterItem(cls, inspection, pipe, i, st, r) ==
    IF ~r.ok
    THEN Ended(FALSE, r.val, st.store, r.env,
               Append(st.trace, TraceEntry(i, pipe[i], st.store, r, FALSE)), st.console)
    ELSE IF interrupt(cls, r.val)
    THEN Ended(TRUE, after_pipe(cls, r.val), st.store, r.env,
               Append(st.trace, TraceEntry(i, pipe[i], st.store, r, TRUE)), st.console)
    ELSE RunLoop(cls, inspection, pipe, i + 1,
                 [store |-> r.val, env |-> r.env,
                  trace |-> Append(st.trace, TraceEntry(i, pipe[i], st.store, r, FALSE)),
                  console |-> st.console])

\* Inspected with a plausible slip: printing leaves a mark on self.store
Inspected_Marks(inspection, item, st) ==
    IF inspection
    THEN [st EXCEPT !.console = Append(st.console, PrintStep(item, st.store)),
                    !.store = Copy(st.store, k_seen :> IntV(1))]
    ELSE st

\* if self.__inspection_mode: self.__print_step(item, self.store)
Inspected(inspection, item, st) ==
    IF inspection
    THEN [st EXCEPT !.console = Append(st.console, PrintStep(item, st.store))]
    ELSE st

\* Exhausted with a plausible slip: self.store is returned without
\* passing through after_pipe
Exhausted_NoAfter(cls, st) ==
    Ended(TRUE, st.store, st.store, st.env, st.trace, st.console)

\* Exhausted with a plausible slip: what after_pipe returns is kept as
\* self.store
Exhausted_KeepsAfter(cls, st) ==
    Ended(TRUE, after_pipe(cls, st.store), after_pipe(cls, st.store), st.env, st.trace,
          st.console)

\* return self.after_pipe(self.store), once the sequence is exhausted
Exhausted(cls, st) ==
    Ended(TRUE, after_pipe(cls, st.store), st.store, st.env, st.trace, st.console)

RunLoop(cls, inspection, pipe, i, st) ==
    IF i > Len(pipe)
    THEN Exhausted(cls, st)
    ELSE AfterItem(cls, inspection, pipe, i, Inspected(inspection, pipe[i], st),
                   Exec(st.env, pipe[i], st.store, <<>>))

\* BasePipe._run_pipe
_run_pipe(cls, inspection, pipe, store, env) ==
    RunLoop(cls, inspection, pipe, 1,
            [store |-> store, env |-> env, trace |-> <<>>, console |-> <<>>])

\* SchemaGet with a plausible slip: an unknown name falls back to the
\* first sequence of the schema
SchemaGet_Fallback(name) ==
    IF DictHas(pipe_schema, name) THEN DictGet(pipe_schema, name) ELSE pipe_schema[1][2]

\* pipe_to_run = self.pipe_schema.get(name, ())
SchemaGet(name) == IF DictHas(pipe_schema, name) THEN DictGet(pipe_schema, name) ELSE <<>>

\* ------------------------------------------------------------------------
\* The database mixins (generics/db/utils.py).  A step built on them holds
\* the connection handle self.__db; a handle is the number of the
\* DatabaseManager object it refers to, 0 standing for None
\* ------------------------------------------------------------------------

\* DatabaseBaseMixin.pk_field
pk_field == "id"

\* DatabaseBaseMixin.__init__(where = where): the fields of a new instance.
\* made counts the DatabaseManager objects constructed so far and
\* disconnected holds those disconnect() was called on; typechecked tells
\* whether the build has @typechecked wrap the methods
DatabaseBaseMixin(where, typechecked) ==
    [handle |-> 0, query |-> 0, where_clause |-> where, typechecked |-> typechecked,
     made |-> 0, disconnected |-> {}]

\* a method of the mixin ends with [ok, val] and leaves the instance as m
Done(ok, val, m) == [ok |-> ok, val |-> val, m |-> m]

\* create_connection returns: a method declared -> NoReturn that returns
\* is typeguard's TypeCheckError (an Exception, not a TypeError) under
\* @typechecked
Returned(m) ==
    IF m.typechecked THEN Done(FALSE, "TypeCheckError", m) ELSE Done(TRUE, "None", m)

\* Connected with a plausible slip: a new DatabaseManager at every call
Connected_Always(m) == [m EXCEPT !.made = m.made + 1, !.handle = m.made + 1]

\* if self.__db is None: self.__db = DatabaseManager(self.connection_config)
Connected(m) ==
    IF m.handle = 0 THEN [m EXCEPT !.made = m.made + 1, !.handle = m.made + 1] ELSE m

\* DatabaseBaseMixin.create_connection
create_connection(m) == Returned(Connected(m))

\* DatabaseBaseMixin.clear_connection: None has no disconnect
clear_connection(m) ==
    IF m.handle = 0 THEN Done(FALSE, "AttributeError", m)
    ELSE Done(TRUE, "None",
              [m EXCEPT !.disconnected = m.disconnected \cup {m.handle}, !.handle = 0])

\* DatabaseBaseMixin.set_table: self.query = self.__db.table(table_name);
\* None has no table, and then self.query is left as it was
set_table(m) ==
    IF m.handle = 0 THEN Done(FALSE, "AttributeError", m)
    ELSE Done(TRUE, "query", [m EXCEPT !.query = m.handle])

\* the query is sent to the database, which answers or fails
Executed(m, outcome, answer) ==
    IF outcome = "ok" THEN Done(TRUE, answer, m) ELSE Done(FALSE, outcome, m)

\* DatabaseBaseMixin.set_where(where): nothing for None, else
\* self.query.where(*where); None has no where, and where() without a
\* column is a TypeError.  self.query is the same builder afterwards
set_where(m, where) ==
    IF where = "None" THEN Done(TRUE, "None", m)
    ELSE IF m.query = 0 THEN Done(FALSE, "AttributeError", m)
    ELSE IF where = "empty" THEN Done(FALSE, "TypeError", m)
    ELSE Done(TRUE, "query", m)

\* a data operation once its last set_where call ended as w; set_select
\* and set_join are given None and do nothing
Filtered(w, outcome, answer) == IF ~w.ok THEN w ELSE Executed(w.m, outcome, answer)

\* insert once self.set_table(self.table_name) ended as t
Tabled(t, outcome, answer) == IF ~t.ok THEN t ELSE Executed(t.m, outcome, answer)

\* update and select once self.set_table(self.table_name) ended as t:
\* self.set_where(self.where_clause) comes before the query is sent (in
\* select after set_where of the pk clause, which has its column)
TabledWhere(t, outcome, answer) ==
    IF ~t.ok THEN t ELSE Filtered(set_where(t.m, t.m.where_clause), outcome, answer)

\* CreateUpdateMixin.insert once self.create_connection() ended as c
Inserting(c, outcome) ==
    IF ~c.ok THEN c ELSE Tabled(set_table(c.m), outcome, "id")

\* CreateUpdateMixin.insert
insert(m, data, outcome) == Inserting(create_connection(m), outcome)

\* CreateUpdateMixin.update once self.create_connection() ended as c:
\* copy.deepcopy(data).pop(self.pk_field) needs the key
Updating(c, data, outcome) ==
    IF ~c.ok THEN c
    ELSE IF pk_field \notin data THEN Done(FALSE, "KeyError", c.m)
    ELSE TabledWhere(set_table(c.m), outcome, "query")

\* CreateUpdateMixin.update
update(m, data, outcome) == Updating(create_connection(m), data, outcome)

\* ReadMixin.select once self.create_connection() ended as c
Selecting(c, pk, outcome) ==
    IF ~c.ok THEN c
    ELSE TabledWhere(set_table(c.m), outcome, IF pk = "None" THEN "list" ELSE "first")

\* ReadMixin.select
select(m, pk, outcome) == Selecting(create_connection(m), pk, outcome)

\* DeleteMixin.delete once self.set_table(self.table_name) ended as t:
\* len(self.where_clause) is a TypeError when where_clause is None; an
\* empty where_clause gives way to the pk clause (self.pk_field, '=', pk, 'and')
Deleting(t, outcome) ==
    IF ~t.ok THEN t
    ELSE IF t.m.where_clause = "None" THEN Done(FALSE, "TypeError", t.m)
    ELSE Filtered(set_where(t.m, "clause"), outcome, "count")

\* DeleteMixin.delete once self.create_connection() ended as c
Delete(c, outcome) == IF ~c.ok THEN c ELSE Deleting(set_table(c.m), outcome)

\* DeleteMixin.delete
delete(m, pk, outcome) == Delete(create_connection(m), outcome)

\* ------------------------------------------------------------------------
\* State and operations
\* ------------------------------------------------------------------------

VARIABLES
    pipe_cls,         \* the class of the pipe object
    store,            \* self.store
    inspection_mode,  \* self.__inspection_mode
    env,              \* required_fields of the step classes and instances
    mixin,            \* a step instance built on the database mixins
    last,             \* the last operation: its arguments and what it did
    nruns             \* operations performed so far

vars == <<pipe_cls, store, inspection_mode, env, mixin, last, nruns>>

\* the initial mappings a pipe is constructed with
Initials == {EmptyStore, k_x :> IntV(0)}

\* the steps the sequences handed to _run_pipe are made of
PipeSteps == {Atom("setx"), Atom("inc"), Atom("stop"), Atom("boom")}

PipeSeqs == UNION {[1..n -> PipeSteps] : n \in 0..MaxLen}

PipeNames == {pipe_schema[i][1] : i \in 1..Len(pipe_schema)} \cup {"missing"}

Record(op, arg, store0, r) ==
    [op |-> op, arg |-> arg, store0 |-> store0, env0 |-> env, ok |-> r.ok, val |-> r.val,
     trace |-> r.trace, console |-> r.console]

\* BasePipe.__init__(initial), inspection left at its default
Init ==
    \E cls \in PipeClasses, initial \in Initials :
        /\ pipe_cls = cls
        /\ inspection_mode = FALSE
        /\ store = before_pipe(cls, initial)
        /\ env = InitEnv
        /\ mixin = DatabaseBaseMixin("None", FALSE)
        /\ last = Record("__init__", initial, initial,
                         [ok |-> TRUE, val |-> EmptyStore, trace |-> <<>>, console |-> <<>>])
        /\ nruns = 0

\* self._run_pipe(pipe)
RunPipeSeq(pipe) ==
    /\ nruns < MaxRuns
    /\ LET r == _run_pipe(pipe_cls, inspection_mode, pipe, store, env) IN
        /\ store' = r.store
        /\ env' = r.env
        /\ last' = Record("_run_pipe", pipe, store, r)
    /\ nruns' = nruns + 1
    /\ UNCHANGED <<pipe_cls, inspection_mode, mixin>>

\* NamedPipe.run_pipe(name)
run_pipe(name) ==
    /\ nruns < MaxRuns
    /\ LET pipe_to_run == SchemaGet(name)
           r == _run_pipe(pipe_cls, inspection_mode, pipe_to_run, store, env)
       IN
        /\ store' = r.store
        /\ env' = r.env
        /\ last' = Record("run_pipe", name, store, r)
    /\ nruns' = nruns + 1
    /\ UNCHANGED <<pipe_cls, inspection_mode, mixin>>

\* BasePipe.set_inspection(enable)
set_inspection(enable) ==
    /\ nruns < MaxRuns
    /\ inspection_mode' = enable
    /\ last' = Record("set_inspection", enable, store,
                      [ok |-> TRUE, val |-> enable, trace |-> <<>>, console |-> <<>>])
    /\ nruns' = nruns + 1
    /\ UNCHANGED <<pipe_cls, store, env, mixin>>

Next ==
    \/ \E pipe \in PipeSeqs : RunPipeSeq(pipe)
    \/ \E name \in PipeNames : run_pipe(name)
    \/ \E enable \in BOOLEAN : set_inspection(enable)

Spec == Init /\ [][Next]_vars

\* ------------------------------------------------------------------------
\* Steps run on their own: step.run(store) for atomic and composed steps
\* ------------------------------------------------------------------------

Atoms == {Atom(id) : id \in AtomIds}

\* a & b and a | b over all pairs of instances, and compositions of those
\* with a further instance
Operands ==
    {Atom(id) : id \in AtomIds \ {"fresh", "dyn_y", "mix_y", "mix_x", "et", "el", "tl", "etl"}}

Composed ==
    {AndStep(a, b) : a \in Operands, b \in Operands}
        \cup {OrStep(a, b) : a \in Operands, b \in Operands}

Nested ==
    {OrStep(AndStep(Atom("bare"), Atom("setx")), Atom("err")),
     AndStep(OrStep(Atom("boom"), Atom("err")), Atom("inc")),
     AndStep(AndStep(Atom("setx"), Atom("fresh")), AndStep(Atom("inc"), Atom("stop"))),
     OrStep(OrStep(Atom("inc"), Atom("boom")), OrStep(Atom("bare"), Atom("err")))}

StepUniverse == Atoms \cup Composed \cup Nested

\* the stores the steps are run on
InputStores ==
    {EmptyStore,
     k_x :> IntV(0),
     (k_x :> IntV(ValMod)) @@ (k_obj_a :> DictV(k_y :> IntV(1))),
     (k_x :> StrV("a")) @@ (k_exception :> ExcV(Exc("OSError", <<"old">>)))}

InitStep ==
    /\ pipe_cls = "PlainPipe"
    /\ inspection_mode = FALSE
    /\ store = EmptyStore
    /\ env = InitEnv
    /\ mixin = DatabaseBaseMixin("None", FALSE)
    /\ last = [op |-> "none", arg |-> Atom("bare"), store0 |-> EmptyStore, env0 |-> InitEnv,
               ok |-> TRUE, val |-> EmptyStore, calls |-> <<>>, runs |-> <<>>]
    /\ nruns = 0

\* step.run(input)
StepRun(step, input) ==
    /\ nruns < MaxStepRuns
    /\ LET r == Exec(env, step, input, <<>>) IN
        /\ env' = r.env
        /\ last' = [op |-> "run", arg |-> step, store0 |-> input, env0 |-> env,
                    ok |-> r.ok, val |-> r.val, calls |-> r.calls, runs |-> r.runs]
    /\ nruns' = nruns + 1
    /\ UNCHANGED <<pipe_cls, store, inspection_mode, mixin>>

NextStep == \E step \in StepUniverse, input \in InputStores : StepRun(step, input)

SpecStep == InitStep /\ [][NextStep]_vars

\* ------------------------------------------------------------------------
\* Validation on its own: step.validate(store) called on the instances of
\* the classes that declare required_fields, several times
\* ------------------------------------------------------------------------

\* the instances validate is called on
FieldIds == {"inc", "setx", "dyn_x", "dyn_y", "mix_y", "mix_x"}

\* the stores they validate
FieldStores ==
    {EmptyStore,
     k_x :> IntV(0),
     k_y :> IntV(0),
     (k_x :> StrV("a")) @@ (k_y :> StrV("b"))}

InitFields ==
    /\ pipe_cls = "PlainPipe"
    /\ inspection_mode = FALSE
    /\ store = EmptyStore
    /\ env = InitEnv
    /\ mixin = DatabaseBaseMixin("None", FALSE)
    /\ last = [op |-> "none", arg |-> "inc", store0 |-> EmptyStore, env0 |-> InitEnv,
               seen |-> {}, ok |-> TRUE, val |-> EmptyStore]
    /\ nruns = 0

\* step.validate(input); seen lists the instances validate was called on
\* before this call
StepValidate(id, input) ==
    /\ nruns < MaxValidations
    /\ LET r == validate(env, id, input) IN
        /\ env' = r.env
        /\ last' = [op |-> "validate", arg |-> id, store0 |-> input, env0 |-> env,
                    seen |-> IF last.op = "validate" THEN last.seen \cup {last.arg} ELSE {},
                    ok |-> r.ok, val |-> r.val]
    /\ nruns' = nruns + 1
    /\ UNCHANGED <<pipe_cls, store, inspection_mode, mixin>>

NextFields == \E id \in FieldIds, input \in FieldStores : StepValidate(id, input)

SpecFields == InitFields /\ [][NextFields]_vars

\* ------------------------------------------------------------------------
\* A program that constructs pipes and runs named sequences on them:
\* MyPipe(initial).run_pipe(name), the step instances being those of the
\* class's pipe_schema every time
\* ------------------------------------------------------------------------

\* what the program remembers of a run_pipe call that was the first on
\* its pipe object
FirstRun(cls, initial, name, r) ==
    [cls |-> cls, initial |-> initial, name |-> name, ok |-> r.ok, val |-> r.val]

InitCalls ==
    \E cls \in PipeClasses, initial \in Initials :
        /\ pipe_cls = cls
        /\ inspection_mode = FALSE
        /\ store = before_pipe(cls, initial)
        /\ env = InitEnv
        /\ mixin = DatabaseBaseMixin("None", FALSE)
        /\ last = [op |-> "__init__", arg |-> initial, store0 |-> initial, ok |-> TRUE,
                   val |-> EmptyStore, initial |-> initial, fresh |-> TRUE, firsts |-> <<>>]
        /\ nruns = 0

\* Construct with a plausible slip: the store lives on past the object,
\* a new pipe finds what the one before it left
Construct_SharedStore(cls, initial) ==
    /\ nruns < MaxCalls
    /\ pipe_cls' = cls
    /\ inspection_mode' = FALSE
    /\ store' = store
    /\ last' = [op |-> "__init__", arg |-> initial, store0 |-> store, ok |-> TRUE,
                val |-> EmptyStore, initial |-> initial, fresh |-> TRUE,
                firsts |-> last.firsts]
    /\ nruns' = nruns + 1
    /\ UNCHANGED <<env, mixin>>

\* BasePipe.__init__(initial) of a new pipe object of class cls, which
\* takes the place of the one before it
Construct(cls, initial) ==
    /\ nruns < MaxCalls
    /\ pipe_cls' = cls
    /\ inspection_mode' = FALSE
    /\ store' = before_pipe(cls, initial)
    /\ last' = [op |-> "__init__", arg |-> initial, store0 |-> store, ok |-> TRUE,
                val |-> EmptyStore, initial |-> initial, fresh |-> TRUE,
                firsts |-> last.firsts]
    /\ nruns' = nruns + 1
    /\ UNCHANGED <<env, mixin>>

\* the record of run_pipe(name) that ended as r
Called(name, r) ==
    [op |-> "run_pipe", arg |-> name, store0 |-> store, ok |-> r.ok, val |-> r.val,
     initial |-> last.initial, fresh |-> FALSE,
     firsts |-> IF last.fresh
                THEN Append(last.firsts, FirstRun(pipe_cls, last.initial, name, r))
                ELSE last.firsts]

\* NamedPipe.run_pipe(name) on the current pipe object
CallNamed(name) ==
    /\ nruns < MaxCalls
    /\ LET r == _run_pipe(pipe_cls, inspection_mode, SchemaGet(name), store, env) IN
        /\ store' = r.store
        /\ env' = r.env
        /\ last' = Called(name, r)
    /\ nruns' = nruns + 1
    /\ UNCHANGED <<pipe_cls, inspection_mode, mixin>>

NextCalls ==
    \/ \E cls \in PipeClasses, initial \in Initials : Construct(cls, initial)
    \/ \E name \in PipeNames : CallNamed(name)

SpecCalls == InitCalls /\ [][NextCalls]_vars

\* ------------------------------------------------------------------------
\* Calls on one step instance built on the database mixins
\* ------------------------------------------------------------------------

\* where given to __init__: None, the empty tuple or a clause
WhereArgs == {"None", "empty", "clause"}

\* data given to insert and update: the keys of the dict
DataArgs == {{"id", "name"}, {"name"}}

\* pk given to select and delete
PkArgs == {"None", "1"}

\* what the database does with a query: an answer or an error
Outcomes == {"ok", "QueryException"}

InitDb ==
    \E where \in WhereArgs, typechecked \in BOOLEAN :
        /\ pipe_cls = "PlainPipe"
        /\ inspection_mode = FALSE
        /\ store = EmptyStore
        /\ env = InitEnv
        /\ mixin = DatabaseBaseMixin(where, typechecked)
        /\ last = [op |-> "__init__", arg |-> {where}, ok |-> TRUE, val |-> "None",
                   m0 |-> DatabaseBaseMixin(where, typechecked), since |-> 0]
        /\ nruns = 0

\* a method of the mixin was called and ended as r; since counts the
\* DatabaseManager objects made after the last clear_connection call
DbCalled(op, arg, r) ==
    /\ nruns < MaxDbCalls
    /\ mixin' = r.m
    /\ last' = [op |-> op, arg |-> arg, ok |-> r.ok, val |-> r.val, m0 |-> mixin,
                since |-> IF op = "clear_connection" THEN 0
                          ELSE last.since + (r.m.made - mixin.made)]
    /\ nruns' = nruns + 1
    /\ UNCHANGED <<pipe_cls, store, inspection_mode, env>>

CallCreateConnection == DbCalled("create_connection", {}, create_connection(mixin))
CallClearConnection == DbCalled("clear_connection", {}, clear_connection(mixin))
CallSetTable == DbCalled("set_table", {}, set_table(mixin))
CallSetWhere(where) == DbCalled("set_where", {where}, set_where(mixin, where))
CallInsert(data, outcome) == DbCalled("insert", data, insert(mixin, data, outcome))
CallUpdate(data, outcome) == DbCalled("update", data, update(mixin, data, outcome))
CallSelect(pk, outcome) == DbCalled("select", {pk}, select(mixin, pk, outcome))
CallDelete(pk, outcome) == DbCalled("delete", {pk}, delete(mixin, pk, outcome))

NextDb ==
    \/ CallCreateConnection
    \/ CallClearConnection
    \/ CallSetTable
    \/ \E where \in WhereArgs : CallSetWhere(where)
    \/ \E data \in DataArgs, outcome \in Outcomes : CallInsert(data, outcome)
    \/ \E data \in DataArgs, outcome \in Outcomes : CallUpdate(data, outcome)
    \/ \E pk \in PkArgs, outcome \in Outcomes : CallSelect(pk, outcome)
    \/ \E pk \in PkArgs, outcome \in Outcomes : CallDelete(pk, outcome)

SpecDb == InitDb /\ [][NextDb]_vars

\* ------------------------------------------------------------------------
\* Properties of the pipe executor (under Spec)
\* ------------------------------------------------------------------------

\* the last operation ran a step sequence, and which
IsPipeRun == last.op \in {"_run_pipe", "run_pipe"}
LastPipe == IF last.op = "run_pipe" THEN SchemaGet(last.arg) ELSE last.arg

\* interrupt answers true on the result of the step run at position k,
\* and for no earlier position
FirstInterruptAt(k) ==
    /\ k \in 1..Len(last.trace)
    /\ last.trace[k].ok /\ interrupt(pipe_cls, last.trace[k].val)
    /\ \A j \in 1..(k - 1) : ~(last.trace[j].ok /\ interrupt(pipe_cls, last.trace[j].val))

\* the executed steps are the first steps of the sequence, in its order
TraceFollowsPipe ==
    /\ Len(last.trace) <= Len(LastPipe)
    /\ \A j \in 1..Len(last.trace) :
          last.trace[j].pos = j /\ last.trace[j].step = LastPipe[j]

\* C1: when interrupt first answers true on the result of step k, the
\* invocation returns after_pipe(result of step k) and no step after
\* position k is run
C1_InterruptEndsPipe ==
    IsPipeRun =>
        \A k \in 1..Len(last.trace) :
            FirstInterruptAt(k) =>
                /\ last.ok
                /\ last.val = after_pipe(pipe_cls, last.trace[k].val)
                /\ Len(last.trace) = k
                /\ TraceFollowsPipe

\* the spec's example: [S1, S2, S3], interrupt true exactly after S2
C1_Witness ==
    /\ IsPipeRun /\ Len(LastPipe) = 3 /\ FirstInterruptAt(2)
    /\ last.ok /\ Len(last.trace) = 2

\* C2: when interrupt answers true on the result of step N, self.store
\* after the return is the value it had just before step N ran (the
\* result of step N-1, or the store the invocation started with), and
\* the returned value is after_pipe(result of step N)
C2_InterruptedResultNotCommitted ==
    IsPipeRun =>
        \A n \in 1..Len(last.trace) :
            FirstInterruptAt(n) =>
                /\ store = last.trace[n].store
                /\ n = 1 => store = last.store0
                /\ n > 1 => store = last.trace[n - 1].val
                /\ last.val = after_pipe(pipe_cls, last.trace[n].val)

C2_Witness ==
    /\ IsPipeRun /\ nruns = 2
    /\ \E n \in 2..Len(last.trace) :
          /\ FirstInterruptAt(n)
          /\ store # last.trace[n].val
          /\ store # last.store0
          /\ last.val # store

\* no step of the last invocation raised and interrupt answered false on
\* every result
RanToTheEnd ==
    /\ last.ok
    /\ \A j \in 1..Len(last.trace) :
          last.trace[j].ok /\ ~interrupt(pipe_cls, last.trace[j].val)

\* C3: without interruption and without exception every step of the
\* sequence is run exactly once, in order, step i on the result of step
\* i-1 (the first on the store the invocation started with); the last
\* result is committed and the invocation returns after_pipe(self.store)
C3_FullRunThreadsStore ==
    (IsPipeRun /\ RanToTheEnd) =>
        /\ Len(last.trace) = Len(LastPipe)
        /\ TraceFollowsPipe
        /\ \A i \in 1..Len(last.trace) :
              /\ last.trace[i].store = IF i = 1 THEN last.store0 ELSE last.trace[i - 1].val
              /\ last.trace[i].step.kind = "atom" =>
                    /\ Len(last.trace[i].calls) = 1
                    /\ last.trace[i].calls[1].id = last.trace[i].step.id
        /\ store = IF last.trace = <<>> THEN last.store0
                   ELSE last.trace[Len(last.trace)].val
        /\ last.val = after_pipe(pipe_cls, store)

C3_Witness ==
    /\ IsPipeRun /\ RanToTheEnd /\ nruns = 2
    /\ Len(last.trace) = 3
    /\ store # last.store0
    /\ last.val # store

\* C4: when step k raises, the invocation raises that exception, no
\* later step runs, no value is returned through after_pipe, and
\* self.store is the value committed before step k
C4_ExceptionAbortsPipe ==
    IsPipeRun =>
        \A k \in 1..Len(last.trace) :
            ~last.trace[k].ok =>
                /\ ~last.ok
                /\ last.val = last.trace[k].val
                /\ Len(last.trace) = k
                /\ TraceFollowsPipe
                /\ store = last.trace[k].store
                /\ k = 1 => store = last.store0
                /\ k > 1 => store = last.trace[k - 1].val

C4_Witness ==
    /\ IsPipeRun /\ ~last.ok /\ Len(LastPipe) = 3
    /\ Len(last.trace) = 2 /\ ~last.trace[2].ok
    /\ store # last.store0

\* C5: run_pipe with a name that is no key of pipe_schema runs no step,
\* raises nothing, leaves self.store as it was and returns
\* after_pipe(self.store)
C5_MissingNameIsNoOp ==
    (last.op = "run_pipe" /\ ~DictHas(pipe_schema, last.arg)) =>
        /\ last.ok
        /\ last.trace = <<>>
        /\ store = last.store0
        /\ last.val = after_pipe(pipe_cls, last.store0)

C5_Witness ==
    /\ last.op = "run_pipe" /\ last.arg = "missing"
    /\ nruns = 2 /\ pipe_cls = "HookPipe"
    /\ k_x \in DOMAIN store
    /\ last.val # store

\* ------------------------------------------------------------------------
\* Properties of the steps and their compositions (under SpecStep)
\* ------------------------------------------------------------------------

\* the last operation was (a & b).run(C) / (a | b).run(C) / s.run(C)
IsAndRun == last.op = "run" /\ last.arg.kind = "and"
IsOrRun == last.op = "run" /\ last.arg.kind = "or"
IsAtomRun == last.op = "run" /\ last.arg.kind = "atom"

\* the run calls the composed step made on its operand obj_a / obj_b
OperandRuns(name) == SelectSeq(last.runs, LAMBDA e : e.path = <<name>>)

\* the capability methods invoked inside operand obj_a / obj_b
OperandCalls(name) == SelectSeq(last.calls, LAMBDA c : c.path # <<>> /\ c.path[1] = name)

BothOperandsSucceed ==
    /\ Len(OperandRuns("obj_a")) = 1 /\ OperandRuns("obj_a")[1].ok
    /\ Len(OperandRuns("obj_b")) = 1 /\ OperandRuns("obj_b")[1].ok

\* C6 as claimed: when both operands succeed on C, both were run on C and
\* the result holds A.run(C) under obj_a, B.run(C) under obj_b and every
\* original key of C with its original value
C6_AsClaimed ==
    (IsAndRun /\ BothOperandsSucceed) =>
        /\ last.ok
        /\ OperandRuns("obj_a")[1].store = last.store0
        /\ OperandRuns("obj_b")[1].store = last.store0
        /\ last.val[k_obj_a] = DictV(OperandRuns("obj_a")[1].val)
        /\ last.val[k_obj_b] = DictV(OperandRuns("obj_b")[1].val)
        /\ \A k \in DOMAIN last.store0 :
              k \in DOMAIN last.val /\ last.val[k] = last.store0[k]

\* C6 (amended): when both operands succeed on C, both were run on C and
\* the result is C with obj_a bound to A.run(C) and obj_b bound to
\* B.run(C): every key of C other than obj_a and obj_b keeps its value,
\* and a value C held under obj_a or obj_b is replaced
C6_AndAttachesBothResults ==
    (IsAndRun /\ BothOperandsSucceed) =>
        /\ last.ok
        /\ OperandRuns("obj_a")[1].store = last.store0
        /\ OperandRuns("obj_b")[1].store = last.store0
        /\ DOMAIN last.val = DOMAIN last.store0 \cup {k_obj_a, k_obj_b}
        /\ last.val[k_obj_a] = DictV(OperandRuns("obj_a")[1].val)
        /\ last.val[k_obj_b] = DictV(OperandRuns("obj_b")[1].val)
        /\ \A k \in DOMAIN last.store0 \ {k_obj_a, k_obj_b} : last.val[k] = last.store0[k]

\* both operands succeed on a store that already holds a value under obj_a
\* and obj_b is given the store, not the different result of obj_a
C6_Witness ==
    /\ IsAndRun /\ BothOperandsSucceed
    /\ k_obj_a \in DOMAIN last.store0
    /\ last.val[k_obj_a] # last.store0[k_obj_a]
    /\ OperandRuns("obj_a")[1].val # last.store0
    /\ OperandRuns("obj_a")[1].val # OperandRuns("obj_b")[1].val

\* C7: when obj_a or obj_b raises on C, (A & B).run(C) raises nothing and
\* returns C: no obj_a / obj_b key added, nothing of the operand that
\* succeeded
C7_AndSwallowsFailure ==
    (IsAndRun /\ \E i \in 1..Len(last.runs) :
                    Len(last.runs[i].path) = 1 /\ ~last.runs[i].ok) =>
        /\ last.ok
        /\ last.val = last.store0

\* obj_a succeeded with a result different from C and obj_b raised
C7_Witness ==
    /\ IsAndRun
    /\ Len(OperandRuns("obj_a")) = 1 /\ OperandRuns("obj_a")[1].ok
    /\ OperandRuns("obj_a")[1].val # last.store0
    /\ Len(OperandRuns("obj_b")) = 1 /\ ~OperandRuns("obj_b")[1].ok
    /\ last.ok /\ k_obj_a \notin DOMAIN last.val

\* C8: when obj_a succeeds on C, (A | B).run(C) returns exactly what
\* obj_a returned, obj_b is not run and no method of it is invoked
C8_OrReturnsFirstSuccess ==
    (IsOrRun /\ Len(OperandRuns("obj_a")) >= 1 /\ OperandRuns("obj_a")[1].ok) =>
        /\ Len(OperandRuns("obj_a")) = 1
        /\ OperandRuns("obj_a")[1].store = last.store0
        /\ last.ok
        /\ last.val = OperandRuns("obj_a")[1].val
        /\ OperandRuns("obj_b") = <<>>
        /\ OperandCalls("obj_b") = <<>>
        /\ k_exception \in DOMAIN last.val =>
              /\ k_exception \in DOMAIN last.store0
              /\ last.val[k_exception] = last.store0[k_exception]

C8_Witness ==
    /\ IsOrRun /\ last.ok
    /\ Len(OperandRuns("obj_a")) = 1 /\ OperandRuns("obj_a")[1].ok
    /\ last.val # last.store0
    /\ last.arg.obj_b = Atom("err")
    /\ k_seen \notin DOMAIN last.val

\* C9: when obj_a raises e on C, (A | B).run(C) runs obj_b exactly once,
\* on C plus key exception bound to e, and ends as that run ends
C9_OrFallsBackWithException ==
    (IsOrRun /\ Len(OperandRuns("obj_a")) >= 1 /\ ~OperandRuns("obj_a")[1].ok) =>
        /\ Len(OperandRuns("obj_a")) = 1
        /\ Len(OperandRuns("obj_b")) = 1
        /\ OperandRuns("obj_b")[1].store
              = Copy(last.store0, k_exception :> ExcV(OperandRuns("obj_a")[1].val))
        /\ last.ok = OperandRuns("obj_b")[1].ok
        /\ last.val = OperandRuns("obj_b")[1].val

\* obj_a raised on a store that held an older exception, obj_b returned
C9_Witness ==
    /\ IsOrRun /\ last.ok
    /\ Len(OperandRuns("obj_a")) = 1 /\ ~OperandRuns("obj_a")[1].ok
    /\ k_exception \in DOMAIN last.store0
    /\ last.val[k_exception] # last.store0[k_exception]
    /\ Len(OperandCalls("obj_b")) = 1

\* the keys the validation schema of the run step marks required and the
\* store lacks; the schema is required_fields as validate leaves it, its
\* dynamic keys resolved
MissingRequired(id) ==
    {i \in 1..Len(Fields(env, id).d) :
        /\ IsRequiredKey(Fields(env, id).d[i][1])
        /\ PropertyName(Fields(env, id).d[i][1]) \notin DOMAIN last.store0}

\* C10: a step with required_fields run on a store that lacks a required
\* key fails with StepValidationException, the message names the class of
\* the step, and none of extract / transform / load is invoked
C10_MissingRequiredKeyFails ==
    (IsAtomRun /\ ~Fields(env, last.arg.id).none
               /\ Fields(env, last.arg.id).d # <<>>
               /\ MissingRequired(last.arg.id) # {}) =>
        /\ ~last.ok
        /\ last.val.type = "StepValidationException"
        /\ \E i \in 1..Len(last.val.msg) : last.val.msg[i] = ClassOf(last.arg.id)
        /\ last.calls = <<>>

C10_Witness ==
    /\ IsAtomRun /\ last.arg = Atom("inc")
    /\ MissingRequired("inc") # {}
    /\ ~last.ok /\ last.val.type = "StepValidationException"

\* the errors of validation: the exception validate raises and the
\* validator's own
IsValidationError(e) == e.type \in {"StepValidationException", "ValidationError"}

\* C11: a step whose required_fields is the empty dict, run on any store,
\* raises no validation error, and the capability method run invokes is
\* given a store with the content of the input
C11_EmptyFieldsNeverFail ==
    (IsAtomRun /\ ~Fields(last.env0, last.arg.id).none
               /\ Fields(last.env0, last.arg.id).d = <<>>) =>
        /\ ~(~last.ok /\ IsValidationError(last.val))
        /\ Len(last.calls) = Len(FirstMethod(last.arg.id))
        /\ \A i \in 1..Len(last.calls) : last.calls[i].store = last.store0

\* a step without required fields was run on a store that holds a string
\* and an exception, and its method was given that store
C11_Witness ==
    /\ IsAtomRun /\ last.arg = Atom("setx")
    /\ Fields(last.env0, "setx").d = <<>>
    /\ k_exception \in DOMAIN last.store0
    /\ last.ok /\ Len(last.calls) = 1 /\ last.calls[1].store = last.store0

\* what the validation step of run answers for the last run: the store
\* itself when required_fields is None, else what validate answers
LastValidation ==
    IF Fields(last.env0, last.arg.id).none
    THEN [ok |-> TRUE, val |-> last.store0]
    ELSE validate(last.env0, last.arg.id, last.store0)

\* the method the order extract, transform, load puts first among ms
FirstInOrder(ms) ==
    IF "extract" \in ms THEN "extract" ELSE IF "transform" \in ms THEN "transform" ELSE "load"

\* C16: once validation passed, run invokes at most one capability
\* method: the first present in the order extract, transform, load, on
\* the validated store, and run ends as that method ends; when the step
\* has none of them run raises StepExecutionException, whose message
\* names extract, transform and load, and nothing is invoked
C16_DispatchFirstPresent ==
    (IsAtomRun /\ LastValidation.ok) =>
        IF Methods(ClassOf(last.arg.id)) \cap {"extract", "transform", "load"} = {}
        THEN /\ last.calls = <<>>
             /\ ~last.ok /\ last.val.type = "StepExecutionException"
             /\ \A m \in {"extract", "transform", "load"} :
                   \E i \in 1..Len(last.val.msg) : last.val.msg[i] = m
        ELSE /\ Len(last.calls) = 1
             /\ last.calls[1].id = last.arg.id
             /\ last.calls[1].method = FirstInOrder(Methods(ClassOf(last.arg.id)))
             /\ last.calls[1].store = LastValidation.val
             /\ [ok |-> last.ok, val |-> last.val]
                   = Capability(last.arg.id, last.calls[1].method, last.calls[1].store)

\* a step that has transform and load was run: transform alone was
\* invoked and its result returned
C16_Witness ==
    /\ IsAtomRun /\ last.arg = Atom("tl") /\ last.store0 = (k_x :> IntV(0))
    /\ Len(last.calls) = 1 /\ last.calls[1].method = "transform"
    /\ last.ok /\ last.val = Copy(last.store0, k_seen :> StrV("transform"))

\* the invocation last made, had the inspection flag been the other way
OtherMode == _run_pipe(pipe_cls, ~inspection_mode, LastPipe, last.store0, last.env0)

\* C17: an invocation with inspection on and the same invocation with
\* inspection off run the same steps in the same order on the same
\* stores, end the same way and leave the same self.store; with
\* inspection on the console receives, for each executed step and in
\* order, the step's class name and the store the step is about to be
\* given, and with inspection off it receives nothing
C17_InspectionOnlyReports ==
    IsPipeRun =>
        /\ OtherMode.ok = last.ok
        /\ OtherMode.val = last.val
        /\ OtherMode.store = store
        /\ OtherMode.trace = last.trace
        /\ OtherMode.env = env
        /\ last.console =
              IF inspection_mode
              THEN [i \in 1..Len(last.trace) |->
                      PrintStep(last.trace[i].step, last.trace[i].store)]
              ELSE <<>>
        /\ OtherMode.console =
              IF inspection_mode
              THEN <<>>
              ELSE [i \in 1..Len(last.trace) |->
                      PrintStep(last.trace[i].step, last.trace[i].store)]

\* a sequence interrupted at its second step was run with inspection on:
\* two reports, the second with the store the first step left
C17_Witness ==
    /\ IsPipeRun /\ inspection_mode /\ last.ok
    /\ Len(last.trace) = 2 /\ last.trace[2].intr
    /\ Len(last.console) = 2
    /\ last.console[2].store = last.trace[1].val
    /\ last.console[2].store # last.store0

\* the results of the trace that were committed: the step returned and
\* interrupt answered false
Committed(trace) == SelectSeq(trace, LAMBDA e : e.ok /\ ~e.intr)

\* self.store is as the constructor or the last committed step left it
StoreIsCommitted ==
    /\ last.op = "__init__" => store = before_pipe(pipe_cls, last.arg)
    /\ last.op = "set_inspection" => store = last.store0
    /\ IsPipeRun =>
          /\ store = IF Committed(last.trace) = <<>> THEN last.store0
                     ELSE Committed(last.trace)[Len(Committed(last.trace))].val
          /\ \A k \in 1..Len(last.trace) :
                (last.trace[k].ok /\ last.trace[k].intr /\ last.trace[k].val # last.trace[k].store)
                    => store # last.trace[k].val
          /\ (last.ok /\ after_pipe(pipe_cls, store) # store) => store # last.val
    /\ ~interrupt(pipe_cls, store)

\* an invocation gives its first step the store the operation before it left
StartsFromStoreLeft ==
    (IsPipeRun' /\ last'.trace # <<>>) => (last'.trace[1].store = store /\ last'.store0 = store)

\* C19: self.store is before_pipe(initial) after construction and, after
\* any invocation (completed, interrupted or aborted), the result of the
\* last step on which interrupt answered false, or what it was before the
\* invocation when there is no such step; it is never the result of an
\* interrupting step nor what after_pipe returned, and every invocation
\* starts from the store the one before it left
C19_StoreInvariant == [](StoreIsCommitted) /\ [][StartsFromStoreLeft]_vars

\* an invocation aborted at its second step, after one that was
\* interrupted: self.store is the result of the first step of the last
\* invocation, run on what the interrupted invocation had committed
C19_Witness ==
    /\ IsPipeRun /\ nruns = 2 /\ pipe_cls = "HookPipe"
    /\ ~last.ok /\ Len(last.trace) = 2
    /\ store = last.trace[1].val
    /\ store # last.store0
    /\ last.store0 # before_pipe(pipe_cls, EmptyStore)
    /\ last.store0 # before_pipe(pipe_cls, k_x :> IntV(0))

\* C15: every invocation of _run_pipe / run_pipe applies before_pipe to
\* the store before its first step runs: the first step is given
\* before_pipe(self.store)
C15_BeforePipeEveryExecution ==
    (IsPipeRun /\ last.trace # <<>>) =>
        last.trace[1].store = before_pipe(pipe_cls, last.store0)

\* ------------------------------------------------------------------------
\* Properties of the dynamic fields (under SpecFields)
\* ------------------------------------------------------------------------

IsValidate == last.op = "validate"

\* the dict self.required_fields referred to when the last call began,
\* and the one it refers to now
FieldsBefore == Fields(last.env0, last.arg).d
FieldsAfter == Fields(env, last.arg).d

\* the positions of the brace-wrapped keys of d
DynamicIdx(d) == {i \in 1..Len(d) : IsDynamicKey(d[i][1])}

\* the value the attribute named by the key at position i holds
ResolvedKey(d, i, id) == Attrs(id)[VariableName(d[i][1])]

\* every dynamic key of d names an attribute of the instance, and no
\* attribute value is the key of another entry of d
Resolvable(d, id) ==
    \A i \in DynamicIdx(d) :
        /\ VariableName(d[i][1]) \in DOMAIN Attrs(id)
        /\ \A j \in 1..Len(d) \ {i} :
              d[j][1] # ResolvedKey(d, i, id)
              /\ (j \in DynamicIdx(d) => ResolvedKey(d, j, id) # ResolvedKey(d, i, id))

\* d with each dynamic entry keyed by the attribute value instead, the rule kept
KeyedByValue(d, id) ==
    [i \in 1..Len(d) |->
        IF i \in DynamicIdx(d) THEN <<ResolvedKey(d, i, id), d[i][2]>> ELSE d[i]]

\* C12: a validate call on an instance whose required_fields holds a key
\* '{name}' or '+{name}' succeeds or fails as validation against the dict
\* with that entry keyed by the value of attribute name does; after the
\* call the literal key is gone, the entry is found under the value with
\* its rule and every other entry is kept; a later validate call on the
\* same instance leaves required_fields as it was
C12_DynamicFieldsResolved ==
    /\ (IsValidate /\ DynamicIdx(FieldsBefore) # {} /\ Resolvable(FieldsBefore, last.arg)) =>
          /\ last.ok = ValidatorValidate(KeyedByValue(FieldsBefore, last.arg), last.store0).ok
          /\ last.ok => last.val = last.store0
          /\ ~last.ok => last.val.type = "StepValidationException"
          /\ Len(FieldsAfter) = Len(FieldsBefore)
          /\ \A i \in 1..Len(FieldsBefore) :
                IF i \in DynamicIdx(FieldsBefore)
                THEN /\ ~DictHas(FieldsAfter, FieldsBefore[i][1])
                     /\ DictHas(FieldsAfter, ResolvedKey(FieldsBefore, i, last.arg))
                     /\ DictGet(FieldsAfter, ResolvedKey(FieldsBefore, i, last.arg))
                           = FieldsBefore[i][2]
                ELSE /\ DictHas(FieldsAfter, FieldsBefore[i][1])
                     /\ DictGet(FieldsAfter, FieldsBefore[i][1]) = FieldsBefore[i][2]
    /\ (IsValidate /\ last.arg \in last.seen) => FieldsAfter = FieldsBefore

\* the second validate call on an instance whose first call resolved
\* '{f}' to y: the rule is enforced under y and the dict is unchanged
C12_Witness ==
    /\ IsValidate /\ last.arg = "mix_y" /\ last.seen = {"mix_y"}
    /\ last.env0.inst_rf["mix_y"].set
    /\ FieldsAfter = << <<k_x, "int">>, <<k_y, "str">> >>
    /\ last.store0 = (k_y :> IntV(0))
    /\ ~last.ok

\* ------------------------------------------------------------------------
\* Properties of exceptions and hooks across invocations (under Spec)
\* ------------------------------------------------------------------------

\* run entry e records a step without capability method raising
\* StepExecutionException
LacksMethods(e) ==
    /\ e.step.kind = "atom" /\ FirstMethod(e.step.id) = <<>>
    /\ ~e.ok /\ e.val.type = "StepExecutionException"

\* the run entries of one item with the given path
EntriesAt(runs, path) == SelectSeq(runs, LAMBDA e : e.path = path)

\* the path of the composition an operand at path belongs to
ParentPath(path) == SubSeq(path, 1, Len(path) - 1)

\* C13 as claimed: the StepExecutionException of a step without capability
\* method, run as pipe element or as operand of a composition, is the
\* exception the pipe invocation raises
C13_AsClaimed ==
    IsPipeRun =>
        \A k \in 1..Len(last.trace) : \A i \in 1..Len(last.trace[k].runs) :
            LacksMethods(last.trace[k].runs[i]) =>
                ~last.ok /\ last.val = last.trace[k].runs[i].val

\* C13 (amended): the StepExecutionException of a step without capability
\* method ends the pipe invocation when the step is an element of the
\* sequence, and ends the run of a | composition whose second operand the
\* step is; an & composition of which the step is an operand returns its
\* input instead, and a | composition of which it is the first operand
\* runs its second operand on the input plus key exception and ends as
\* that run ends
C13_ExecutionErrorPropagation ==
    IsPipeRun =>
        \A k \in 1..Len(last.trace) : \A i \in 1..Len(last.trace[k].runs) :
            LET runs == last.trace[k].runs
                e == runs[i]
                parent == EntriesAt(runs, ParentPath(e.path))
                second == EntriesAt(runs, Append(ParentPath(e.path), "obj_b"))
            IN  LacksMethods(e) =>
                  IF e.path = <<>>
                  THEN ~last.ok /\ last.val = e.val /\ Len(last.trace) = k
                  ELSE /\ Len(parent) = 1
                       /\ parent[1].step.kind = "and" =>
                             parent[1].ok /\ parent[1].val = parent[1].store
                       /\ (parent[1].step.kind = "or" /\ e.path[Len(e.path)] = "obj_a") =>
                             /\ Len(second) = 1
                             /\ second[1].store
                                   = Copy(parent[1].store, k_exception :> ExcV(e.val))
                             /\ parent[1].ok = second[1].ok
                             /\ parent[1].val = second[1].val
                       /\ (parent[1].step.kind = "or" /\ e.path[Len(e.path)] = "obj_b") =>
                             ~parent[1].ok /\ parent[1].val = e.val

\* a step without capability method raised as first operand of an &
\* element, the element returned its input and the pipe ran to its end
C13_Witness ==
    /\ last.op = "run_pipe" /\ last.arg = "lack_and" /\ last.ok
    /\ Len(last.trace) = 2
    /\ \E i \in 1..Len(last.trace[1].runs) :
          LacksMethods(last.trace[1].runs[i]) /\ last.trace[1].runs[i].path = <<"obj_a">>
    /\ last.trace[1].ok /\ last.trace[1].val = last.trace[1].store

\* required_fields as the class of the instance declares it
Declared(id) == DeclaredFields(FieldsOwner(ClassOf(id))).d

\* C20: a validate call changes the required_fields of no other instance;
\* an instance not validated so far still sees what its class declares,
\* and an instance validated for the first time, whatever was validated
\* before it, succeeds or fails as validation against the declared dict
\* with the dynamic entry keyed by its own attribute value does
C20_ResolutionIsPerInstance ==
    IsValidate =>
        /\ \A other \in FieldIds \ {last.arg} :
              Fields(env, other) = Fields(last.env0, other)
        /\ \A other \in FieldIds \ (last.seen \cup {last.arg}) :
              Fields(env, other).d = Declared(other)
        /\ (last.arg \notin last.seen /\ Resolvable(Declared(last.arg), last.arg)) =>
              last.ok = ValidatorValidate(KeyedByValue(Declared(last.arg), last.arg),
                                          last.store0).ok

\* ------------------------------------------------------------------------
\* Properties of repeated runs (under SpecCalls)
\* ------------------------------------------------------------------------

\* the run of the step depends on the store it is given alone: none of
\* the classes involved declares a dynamic field, whose resolution changes
\* the step on its first validation
RECURSIVE PureStep(_)
PureStep(step) ==
    IF step.kind = "atom"
    THEN DynamicIdx(DeclaredFields(FieldsOwner(ClassOf(step.id))).d) = {}
    ELSE PureStep(step.obj_a) /\ PureStep(step.obj_b)

PureSequence(pipe) == \A i \in 1..Len(pipe) : PureStep(pipe[i])

\* C14: two pipes of one class constructed with the same initial mapping,
\* each running the same sequence of pure steps as its first run, end the
\* same way: the second returns the container the first returned
C14_SameStartSameResult ==
    \A i \in 1..Len(last.firsts) : \A j \in (i + 1)..Len(last.firsts) :
        (/\ last.firsts[i].cls = last.firsts[j].cls
         /\ last.firsts[i].initial = last.firsts[j].initial
         /\ last.firsts[i].name = last.firsts[j].name
         /\ PureSequence(SchemaGet(last.firsts[i].name))) =>
            /\ last.firsts[j].ok = last.firsts[i].ok
            /\ last.firsts[j].val = last.firsts[i].val

\* sequence bump was run on two pipes made from {x: 0}; the first run
\* left a store that is not the initial one, and both returned the same
C14_Witness ==
    /\ Len(last.firsts) = 2
    /\ last.firsts[1].name = "bump" /\ last.firsts[2].name = "bump"
    /\ last.firsts[1].cls = "HookPipe" /\ last.firsts[2].cls = "HookPipe"
    /\ last.firsts[1].initial = (k_x :> IntV(0))
    /\ last.firsts[2].initial = (k_x :> IntV(0))
    /\ last.firsts[1].ok
    /\ last.firsts[2].val = last.firsts[1].val
    /\ last.firsts[1].val # before_pipe("HookPipe", k_x :> IntV(0))
    /\ store # before_pipe("HookPipe", k_x :> IntV(0))

\* ------------------------------------------------------------------------
\* Properties of the database connection (under SpecDb)
\* ------------------------------------------------------------------------

DataOps == {"insert", "update", "select", "delete"}

\* C18: a DatabaseManager is made only by create_connection or a data
\* operation called while the handle is None, and then it becomes the
\* handle; a handle that is set is kept by these calls and is the one a
\* data operation queries; at most one is made after a clear_connection
\* call; clear_connection leaves the handle None, having called
\* disconnect on the one that was set; no other call disconnects or
\* unsets the handle, whether it returns or raises; a direct set_table
\* or set_where call makes, disconnects and unsets nothing
C18_ConnectionLifecycle ==
    /\ last.since <= 1
    /\ mixin.handle # 0 => mixin.handle \notin mixin.disconnected
    /\ last.op \in DataOps \cup {"create_connection"} =>
          /\ mixin.handle # 0
          /\ mixin.disconnected = last.m0.disconnected
          /\ IF last.m0.handle = 0
             THEN mixin.made = last.m0.made + 1 /\ mixin.handle = mixin.made
             ELSE mixin.made = last.m0.made /\ mixin.handle = last.m0.handle
          /\ mixin.query \in {mixin.handle, last.m0.query}
          /\ (last.op \in DataOps /\ last.ok) => mixin.query = mixin.handle
    /\ last.op = "clear_connection" =>
          /\ mixin.handle = 0
          /\ mixin.made = last.m0.made
          /\ IF last.m0.handle = 0
             THEN ~last.ok /\ mixin.disconnected = last.m0.disconnected
             ELSE last.ok /\ mixin.disconnected = last.m0.disconnected \cup {last.m0.handle}
    /\ last.op \in {"set_table", "set_where"} =>
          /\ mixin.handle = last.m0.handle
          /\ mixin.made = last.m0.made
          /\ mixin.disconnected = last.m0.disconnected
    /\ last.op = "set_table" =>
          /\ last.ok = (last.m0.handle # 0)
          /\ mixin.query = (IF last.ok THEN mixin.handle ELSE last.m0.query)
    /\ last.op = "set_where" => mixin.query = last.m0.query

\* a second handle was made after the first was cleared, and a data
\* operation that failed in the database left it in place
C18_Witness ==
    /\ last.op = "select" /\ ~last.ok /\ last.val = "QueryException"
    /\ mixin.made = 2 /\ mixin.handle = 2 /\ mixin.disconnected = {1}
    /\ last.m0.handle = 2
    /\ last.since = 1

====
